---- MODULE Spec2Model ----
(***************************************************************************)
(* Fluxy: the NSE announcement monitor.  A model of the ingest cycle       *)
(* (backend/nse_scraper_simple.py: fetch_nse_data, send_telegram_alert),   *)
(* of the announcements table (backend/models.py) and of the monitoring    *)
(* service that drives the cycles (backend/nse_monitor.py).                *)
(* The cron jobs of the APScheduler variant (backend/scheduler.py) are      *)
(* modelled on their own (CronSpec).                                       *)
(*                                                                         *)
(* Threads: "main" runs start() and its initial fetch, "loop" is the       *)
(* daemon thread running monitoring_loop, "web" is a Flask request thread  *)
(* serving /force-fetch (app.run(threaded=True)).                          *)
(***************************************************************************)
EXTENDS Integers, Sequences, FiniteSets

\* ------------------------------------------------------------------ bounds
\* longest list the endpoint serves
MaxBatch == 2
\* cycles the monitoring loop starts, after the initial fetch of start()
MaxLoopCycles == 1
\* /force-fetch requests served
MaxManual == 1
\* outages of the database
MaxOutages == 1
\* calls of stop()
MaxStops == 2
\* longest list the endpoint serves while the loop is left running without end
LiveBatch == 1
\* longest list of items of every shape
NormBatch == 2
\* restarts of the process
MaxRestarts == 1
\* longest list of items that differ in one field
KeyBatch == 3
\* most new records of one cycle
BulkMax == 7
\* longest list of items with several date fields
DateBatch == 1

\* ------------------------------------------------------- program constants
MarketInterval == 120
OffHoursInterval == 300
\* time.sleep(60) of the handler of monitoring_loop
CooldownSecs == 60
\* fetch_and_alert: "if len(new_announcements) > 5"
BulkThreshold == 5

\* datetime.now(): weekday() is 0 (Monday) .. 6 (Sunday), hour is 0 .. 23
Weekdays == 0..6
Hours == 0..23
Clocks == [wd : Weekdays, hr : Hours]

\* the service is started on a Monday at nine
StartClock == [wd |-> 0, hr |-> 9]

\* is_weekday = now.weekday() < 5; is_market_hours = 9 <= now.hour <= 18
IntervalAt(now) ==
    LET is_weekday      == now.wd < 5
        is_market_hours == 9 <= now.hr /\ now.hr <= 18
    IN  IF is_weekday /\ is_market_hours THEN MarketInterval ELSE OffHoursInterval

Threads == {"main", "loop", "web"}

\* Strings are sequences of one-character strings, so that strip() is computed.
Space == " "
RawStrings == { <<"A">>, <<"B", Space>>, <<Space>> }
RawTitles == { <<"t">> }

\* The value of the date field of an item, by what strptime makes of it:
\* "iso" matches "%Y-%m-%d %H:%M:%S", "nse" matches "%d-%b-%Y %I:%M:%S %p",
\* "other" is a string in neither format, "none" is a missing, null or empty
\* value, "number" is a value that is not a string (and not 0)
RawDates == {"iso", "nse", "other", "none", "number"}

\* One raw item of the JSON list: the fields fetch_nse_data reads. dict: the
\* item is a JSON object. These are the items of the usual list: objects with a
\* date in the first format, in an_dt.
RawItems ==
    [dict : {TRUE}, symbol : RawStrings, sm_name : { <<"n">> }, desc : RawTitles,
     attchmntFile : { <<"f">> }, attchmntText : { <<"x">> },
     an_dt : {"iso"}, dt : {"none"}, sort_date : {"none"}]

\* an element of the list that is no object (a string, a number, null)
NotDict == [dict |-> FALSE, symbol |-> <<>>, sm_name |-> <<>>, desc |-> <<>>,
            attchmntFile |-> <<>>, attchmntText |-> <<>>,
            an_dt |-> "none", dt |-> "none", sort_date |-> "none"]

\* Items of every shape: blank symbol, blank title, every kind of date, no object
OddItems ==
    [dict : {TRUE}, symbol : { <<"A">>, <<Space>> }, sm_name : { <<"n">> },
     desc : { <<"t">>, <<Space>> }, attchmntFile : { <<"f">> },
     attchmntText : { <<"x">> }, an_dt : RawDates, dt : {"none"},
     sort_date : {"none"}] \cup { NotDict }

RECURSIVE SeqsUpTo(_, _)
SeqsUpTo(S, n) ==
    IF n = 0 THEN { <<>> }
    ELSE LET shorter == SeqsUpTo(S, n - 1)
         IN  shorter \cup { Append(s, x) : s \in { q \in shorter : Len(q) = n - 1 }, x \in S }

Batches == SeqsUpTo(RawItems, MaxBatch)

\* ------------------------------------------------------------ normalisation
RECURSIVE LStrip(_)
LStrip(s) == IF s # <<>> /\ Head(s) = Space THEN LStrip(Tail(s)) ELSE s

RECURSIVE RStrip(_)
RStrip(s) ==
    IF s # <<>> /\ s[Len(s)] = Space THEN RStrip(SubSeq(s, 1, Len(s) - 1)) ELSE s

\* str(...).strip()
Strip(s) == RStrip(LStrip(s))

\* "Handle date" of fetch_nse_data: the date of the record, "parsed" from the
\* item or "now"; "TypeError" when the first strptime is handed a value that is
\* no string, which "except ValueError" does not catch
ParseDate(date_str) ==
    IF date_str = "none" THEN "now"
    ELSE IF date_str = "iso" THEN "parsed"
    ELSE IF date_str = "number" THEN "TypeError"
    ELSE IF date_str = "nse" THEN "parsed"
    ELSE "now"

\* date_str = item.get("an_dt") or item.get("dt") or item.get("sort_date"):
\* the first of the three that is not missing, null or empty
DateStr(item) ==
    IF item.an_dt # "none" THEN item.an_dt
    ELSE IF item.dt # "none" THEN item.dt
    ELSE item.sort_date

\* the statements of the item raise before the duplicate check: item.get on a
\* value that is no dict (AttributeError), the TypeError of ParseDate; "except
\* Exception as item_error" catches it
Raises(item) == ~item.dict \/ ParseDate(DateStr(item)) = "TypeError"

\* a string in lower case
Fold(s) == [i \in 1..Len(s) |-> CASE s[i] = "A" -> "a"
                                   [] s[i] = "B" -> "b"
                                   [] s[i] = "T" -> "t"
                                   [] OTHER -> s[i]]

\* a key that ignores letter case
KeyOfFolded(item) == [company |-> Fold(Strip(item.symbol)), title |-> Fold(Strip(item.desc))]

\* company, title of an item: the deduplication key
KeyOf(item) == [company |-> Strip(item.symbol), title |-> Strip(item.desc)]

\* a test of the raw fields, before they are trimmed
EssentialRaw(item) == item.symbol # <<>> /\ item.desc # <<>>

\* "if not company or not title: continue"
Essential(item) == KeyOf(item).company # <<>> /\ KeyOf(item).title # <<>>

VARIABLES
    feed,               \* the list the announcements endpoint serves
    storeUp,            \* the database accepts connections
    outages,            \* number of outages so far
    table,              \* the announcements table: rows in id order
    running,            \* NSEMonitorService.running
    fetch_interval,     \* NSEMonitorService.fetch_interval
    last_fetch_time,    \* NSEMonitorService.last_fetch_time: id of the cycle that set it, 0 = None
    total_alerts_sent,  \* NSEMonitorService.total_alerts_sent
    pc,                 \* position of each thread
    cyc,                \* the cycle each thread is executing (0: none)
    data,               \* fetch_nse_data: data
    idx,                \* fetch_nse_data: position in data (1-based)
    new_announcements,  \* fetch_nse_data: new_announcements, as positions in data
    alerts,             \* history: every call of send_telegram_alert, in order
    hist,               \* history: one record per cycle started
    clock,              \* the local time datetime.now() returns: weekday and hour
    nap,                \* monitoring_loop: seconds the sleep since the last cycle is to take (0: none)
    slept,              \* monitoring_loop: seconds of it slept so far
    shutdown_sent,      \* shutdown notifications stop() has posted
    boots,              \* history: for each restart of the process, the cycles started and the rows stored before it
    status_reply,       \* the response to the last GET / (status "none": no request yet)
    scheduler,          \* scheduler.py: the BackgroundScheduler, its local time and the jobs it fires at this minute
    loaded              \* fetch_and_alert: the value of total_alerts_sent each thread has read for its "+="

\* what the scheduler claims look at, besides the flag and the interval
sched == << clock, nap, slept, shutdown_sent, boots, status_reply, scheduler, loaded >>

vars == << feed, storeUp, outages, table, running, fetch_interval, last_fetch_time,
           total_alerts_sent, pc, cyc, data, idx, new_announcements, alerts, hist,
           sched >>

\* Positions inside fetch_and_alert
CyclePcs == {"fetch", "item", "insert", "notify", "ret", "add"}

InCycle(t) == pc[t] \in CyclePcs

\* thr: the thread that ran it; st: "run" or "done"; gets: HTTP GETs issued; src: "none", "ok" or "failed";
\* commits: positions committed; ret: the list fetch_nse_data returned;
\* errAt: position of the first failed store operation (0: none); lastOp: position
\* of the last store operation; okAfterErr: a store operation succeeded after a
\* failed one; ovl: another cycle was in progress at some time of this one;
\* rolled: positions whose commit failed and was rolled back;
\* raised: fetch_and_alert ended in its except branch; reply: the status of the
\* response to the request that ran the cycle ("none": no request, or not yet);
\* bulk: for each call of send_bulk_alert_summary, the number of calls of
\* send_telegram_alert made before it
NoCycle == [thr |-> "main", st |-> "done", gets |-> 0, src |-> "none",
            commits |-> <<>>, ret |-> <<>>, errAt |-> 0, lastOp |-> 0,
            okAfterErr |-> FALSE, ovl |-> FALSE, rolled |-> <<>>, raised |-> FALSE,
            reply |-> "none", bulk |-> <<>>]

\* scheduler = BackgroundScheduler(daemon=True), not started
NotStarted == [running |-> FALSE, wd |-> 0, hr |-> 0, mn |-> 0, fired |-> {}]

\* no GET / answered yet
NoReply == [status |-> "none", last_fetch |-> 0, total_announcements |-> 0,
            total_alerts_sent |-> 0, during |-> {}]

\* NSEMonitorService(): the fields of __init__, no thread born, an empty table
Boot ==
    /\ storeUp = TRUE
    /\ table = <<>>
    /\ running = FALSE
    /\ fetch_interval = MarketInterval
    /\ last_fetch_time = 0
    /\ total_alerts_sent = 0
    /\ pc = [t \in Threads |-> IF t = "main" THEN "init" ELSE "unborn"]
    /\ cyc = [t \in Threads |-> 0]
    /\ data = [t \in Threads |-> <<>>]
    /\ idx = [t \in Threads |-> 0]
    /\ new_announcements = [t \in Threads |-> <<>>]
    /\ alerts = <<>>
    /\ hist = <<>>
    /\ clock = StartClock
    /\ nap = 0
    /\ slept = 0
    /\ shutdown_sent = 0
    /\ boots = <<>>
    /\ status_reply = NoReply
    /\ scheduler = NotStarted
    /\ loaded = [t \in Threads |-> 0]

Init ==
    /\ feed \in Batches
    /\ outages = 0
    /\ Boot

\* -------------------------------------------------------------- the store
\* Announcement(company=..., title=..., date=...)
RowOf(item) ==
    [company     |-> KeyOf(item).company,
     companyName |-> Strip(item.sm_name),
     title       |-> KeyOf(item).title,
     desc        |-> Strip(item.attchmntText),
     link        |-> Strip(item.attchmntFile),
     date        |-> ParseDate(DateStr(item))]

\* the pair of a row
RowKey(row) == [company |-> row.company, title |-> row.title]

\* a duplicate check that looks at the newest row only
ExistsNewestOnly(key) == Len(table) > 0 /\ RowKey(table[Len(table)]) = key

\* a duplicate check against the rows this process has added itself
ExistsThisRun(key) ==
    LET first == IF boots = <<>> THEN 1 ELSE boots[Len(boots)].rows + 1
    IN  \E r \in first..Len(table) : RowKey(table[r]) = key

\* Announcement.query.filter_by(company=..., title=...).first()
Exists(key) == \E r \in 1..Len(table) : RowKey(table[r]) = key

\* db.session.add(ann); db.session.commit(): the table has no unique constraint
InsertRow(row) == Append(table, row)

\* ------------------------------------------------------------ bookkeeping
\* force_fetch: return jsonify({"status": "fetch_triggered"}), whatever
\* fetch_and_alert did
Reply(t) == IF t = "web" THEN "fetch_triggered" ELSE "none"

\* where a thread continues once fetch_and_alert has returned
After(t) == CASE t = "main" -> "spawn"
              [] t = "loop" -> "sleep"
              [] OTHER      -> "idle"

Others(t) == { u \in Threads \ {t} : InCycle(u) }

\* cycles a thread has started so far
Started(t) == Cardinality({ c \in 1..Len(hist) : hist[c].thr = t })

\* the model follows a thread through this many cycles
MayStart(t) == CASE t = "main" -> TRUE
                 [] t = "loop" -> Started(t) < MaxLoopCycles
                 [] OTHER      -> Started(t) < MaxManual

\* The store as a store operation finds it: as it was, gone down since the last
\* operation (a new outage) or come back since
Finds(up) ==
    \/ up = storeUp
    \/ storeUp /\ ~up /\ outages < MaxOutages
    \/ ~storeUp /\ up

Touch(up) ==
    /\ Finds(up)
    /\ storeUp' = up
    /\ outages' = IF storeUp /\ ~up THEN outages + 1 ELSE outages

\* a store operation of fetch_nse_data at position i, failing or not
StoreOp(h, i, failed) ==
    [h EXCEPT !.lastOp = i,
              !.errAt = IF failed /\ @ = 0 THEN i ELSE @,
              !.okAfterErr = @ \/ (~failed /\ h.errAt # 0)]

\* the for loop moves to the next item, or fetch_nse_data returns its list
Advance(t, H, h, news) ==
    /\ idx' = [idx EXCEPT ![t] = @ + 1]
    /\ IF idx[t] + 1 > Len(data[t])
       THEN /\ pc' = [pc EXCEPT ![t] = "ret"]
            /\ hist' = [H EXCEPT ![cyc[t]] = [h EXCEPT !.ret = news]]
       ELSE /\ pc' = [pc EXCEPT ![t] = "item"]
            /\ hist' = [H EXCEPT ![cyc[t]] = h]

\* ------------------------------------------------------------ the service
\* start(): self.running = True, then the initial fetch_and_alert()
Start ==
    /\ pc["main"] = "init"
    /\ running' = TRUE
    /\ pc' = [pc EXCEPT !["main"] = "call"]
    /\ UNCHANGED << sched, feed, storeUp, outages, table, fetch_interval, last_fetch_time,
                    total_alerts_sent, cyc, data, idx, new_announcements, alerts, hist >>

\* start(): monitor_thread.start(), then app.run(threaded=True)
Serve ==
    /\ pc["main"] = "spawn"
    /\ pc' = [pc EXCEPT !["main"] = "serving", !["loop"] = "top", !["web"] = "idle"]
    /\ UNCHANGED << sched, feed, storeUp, outages, table, running, fetch_interval,
                    last_fetch_time, total_alerts_sent, cyc, data, idx,
                    new_announcements, alerts, hist >>

\* monitoring_loop: while self.running, choose the interval, call fetch_and_alert
LoopTop ==
    /\ pc["loop"] = "top"
    /\ IF running
       THEN /\ fetch_interval' = IntervalAt(clock)
            /\ pc' = [pc EXCEPT !["loop"] = "call"]
       ELSE /\ pc' = [pc EXCEPT !["loop"] = "exit"]
            /\ UNCHANGED fetch_interval
    /\ UNCHANGED << sched, feed, storeUp, outages, table, running, last_fetch_time,
                    total_alerts_sent, cyc, data, idx, new_announcements, alerts, hist >>

\* monitoring_loop: the sleep between two cycles, the whole for loop at once:
\* range(self.fetch_interval) seconds, none when the flag is already cleared
LoopSleep ==
    /\ pc["loop"] = "sleep"
    /\ pc' = [pc EXCEPT !["loop"] = "top"]
    /\ nap' = fetch_interval
    /\ slept' = IF running THEN fetch_interval ELSE 0
    /\ UNCHANGED << loaded, scheduler, status_reply, boots, clock, shutdown_sent, feed, storeUp, outages, table, running,
                    fetch_interval, last_fetch_time, total_alerts_sent, cyc, data, idx,
                    new_announcements, alerts, hist >>

\* monitoring_loop: "for _ in range(self.fetch_interval)" is entered
SleepEnter ==
    /\ pc["loop"] = "sleep"
    /\ pc' = [pc EXCEPT !["loop"] = "nap"]
    /\ nap' = fetch_interval
    /\ slept' = 0
    /\ UNCHANGED << loaded, scheduler, status_reply, boots, clock, shutdown_sent, feed, storeUp, outages, table, running,
                    fetch_interval, last_fetch_time, total_alerts_sent, cyc, data, idx,
                    new_announcements, alerts, hist >>

\* monitoring_loop, one iteration of the for loop: "if not self.running: break",
\* else time.sleep(1); the loop ends after range(...) iterations
SleepTick ==
    /\ pc["loop"] = "nap"
    /\ IF slept < nap /\ running
       THEN /\ slept' = slept + 1
            /\ UNCHANGED pc
       ELSE /\ pc' = [pc EXCEPT !["loop"] = "top"]
            /\ UNCHANGED slept
    /\ UNCHANGED << loaded, scheduler, status_reply, boots, clock, nap, shutdown_sent, feed, storeUp, outages, table, running,
                    fetch_interval, last_fetch_time, total_alerts_sent, cyc, data, idx,
                    new_announcements, alerts, hist >>

\* monitoring_loop: a statement of the try body after fetch_and_alert (the log
\* line, the sleep) raises an Exception; "except Exception as e" logs it and enters time.sleep(60)
LoopFault ==
    /\ pc["loop"] \in {"sleep", "nap"}
    /\ pc' = [pc EXCEPT !["loop"] = "cooldown"]
    /\ nap' = CooldownSecs
    /\ slept' = 0
    /\ UNCHANGED << loaded, scheduler, status_reply, boots, clock, shutdown_sent, feed, storeUp, outages, table, running,
                    fetch_interval, last_fetch_time, total_alerts_sent, cyc, data, idx,
                    new_announcements, alerts, hist >>

\* a handler that leaves the while loop after its sleep
CooldownBreak ==
    /\ pc["loop"] = "cooldown"
    /\ pc' = [pc EXCEPT !["loop"] = "exit"]
    /\ slept' = nap
    /\ UNCHANGED << loaded, scheduler, status_reply, boots, clock, nap, shutdown_sent, feed, storeUp, outages, table, running,
                    fetch_interval, last_fetch_time, total_alerts_sent, cyc, data, idx,
                    new_announcements, alerts, hist >>

\* monitoring_loop: time.sleep(60) returns; the flag is not looked at meanwhile
Cooldown ==
    /\ pc["loop"] = "cooldown"
    /\ pc' = [pc EXCEPT !["loop"] = "top"]
    /\ slept' = nap
    /\ UNCHANGED << loaded, scheduler, status_reply, boots, clock, nap, shutdown_sent, feed, storeUp, outages, table, running,
                    fetch_interval, last_fetch_time, total_alerts_sent, cyc, data, idx,
                    new_announcements, alerts, hist >>

\* an hour of local time passes
Hour ==
    /\ clock' = IF clock.hr < 23
                THEN [clock EXCEPT !.hr = @ + 1]
                ELSE [wd |-> (clock.wd + 1) % 7, hr |-> 0]
    /\ UNCHANGED << loaded, scheduler, status_reply, boots, nap, slept, shutdown_sent, feed, storeUp, outages, table, running,
                    fetch_interval, last_fetch_time, total_alerts_sent, pc, cyc, data,
                    idx, new_announcements, alerts, hist >>

\* GET /force-fetch arrives: force_fetch calls fetch_and_alert
ForceFetch ==
    /\ pc["web"] = "idle"
    /\ pc["main"] = "serving"
    /\ pc' = [pc EXCEPT !["web"] = "call"]
    /\ UNCHANGED << sched, feed, storeUp, outages, table, running, fetch_interval,
                    last_fetch_time, total_alerts_sent, cyc, data, idx,
                    new_announcements, alerts, hist >>

\* GET / arrives while app.run serves (the route is registered and the server
\* started after the initial fetch): status() counts the rows and reads the
\* fields of the service, in a request thread of its own; during: the cycles in
\* progress while it answers; a failing count gives the 500 response of Flask
Status ==
    /\ pc["main"] = "serving"
    /\ \E up \in BOOLEAN :
         /\ Touch(up)
         /\ status_reply' =
               IF up
               THEN [status |-> IF running THEN "running" ELSE "stopped",
                     last_fetch |-> last_fetch_time,
                     total_announcements |-> Len(table),
                     total_alerts_sent |-> total_alerts_sent,
                     during |-> { cyc[t] : t \in { u \in Threads : InCycle(u) } }]
               ELSE [NoReply EXCEPT !.status = "error",
                                    !.during = { cyc[t] : t \in { u \in Threads : InCycle(u) } }]
    /\ UNCHANGED << loaded, scheduler, boots, clock, nap, slept, shutdown_sent, feed, table,
                    running, fetch_interval, last_fetch_time, total_alerts_sent, pc, cyc,
                    data, idx, new_announcements, alerts, hist >>

\* stop(), called while the service serves: self.running = False, then the
\* shutdown notification is posted (requests.post, its failure swallowed);
\* nothing looks at an earlier call, and no thread is ended
Stop ==
    /\ pc["main"] = "serving"
    /\ shutdown_sent < MaxStops
    /\ running' = FALSE
    /\ shutdown_sent' = shutdown_sent + 1
    /\ UNCHANGED << loaded, scheduler, status_reply, boots, clock, nap, slept, feed, storeUp, outages, table, fetch_interval,
                    last_fetch_time, total_alerts_sent, pc, cyc, data, idx,
                    new_announcements, alerts, hist >>

\* ------------------------------------------------------- fetch_and_alert
\* fetch_and_alert begins: before_count = Announcement.query.count(); nothing
\* keeps a second thread from entering while another is inside
BeginCycle(t) ==
    /\ pc[t] = "call"
    /\ MayStart(t)
    /\ \E up \in BOOLEAN :
         /\ Touch(up)
         /\ LET c == Len(hist) + 1
                h == [NoCycle EXCEPT !.thr = t, !.ovl = Others(t) # {}]
                marked == [k \in 1..Len(hist) |->
                             IF \E u \in Others(t) : cyc[u] = k
                             THEN [hist[k] EXCEPT !.ovl = TRUE]
                             ELSE hist[k]]
            IN  IF up
                THEN /\ hist' = Append(marked, [h EXCEPT !.st = "run"])
                     /\ pc' = [pc EXCEPT ![t] = "fetch"]
                     /\ cyc' = [cyc EXCEPT ![t] = c]
                ELSE \* the count raises: except Exception, the error is logged
                     /\ hist' = Append(marked, [h EXCEPT !.raised = TRUE,
                                                          !.reply = Reply(t)])
                     /\ pc' = [pc EXCEPT ![t] = After(t)]
                     /\ UNCHANGED cyc
    \* the sleep that came before the cycle is over
    /\ nap' = IF t = "loop" THEN 0 ELSE nap
    /\ slept' = IF t = "loop" THEN 0 ELSE slept
    /\ UNCHANGED << loaded, scheduler, status_reply, boots, clock, shutdown_sent, feed, table, running, fetch_interval, last_fetch_time,
                    total_alerts_sent, data, idx, new_announcements, alerts >>

FetchOutcomes == {"ok", "timeout", "bad_status", "not_json", "not_list"}

Reverse(s) == [i \in 1..Len(s) |-> s[Len(s) + 1 - i]]

\* a fetch that walks the list newest first
FetchReversed(t) ==
    /\ pc[t] = "fetch"
    /\ \E o \in FetchOutcomes :
         LET h == [hist[cyc[t]] EXCEPT !.gets = @ + 1,
                                       !.src = IF o = "ok" THEN "ok" ELSE "failed"]
         IN  IF o = "ok" /\ feed # <<>>
             THEN /\ data' = [data EXCEPT ![t] = Reverse(feed)]
                  /\ idx' = [idx EXCEPT ![t] = 1]
                  /\ pc' = [pc EXCEPT ![t] = "item"]
                  /\ hist' = [hist EXCEPT ![cyc[t]] = h]
             ELSE /\ data' = [data EXCEPT ![t] = IF o = "ok" THEN feed ELSE <<>>]
                  /\ pc' = [pc EXCEPT ![t] = "ret"]
                  /\ hist' = [hist EXCEPT ![cyc[t]] = [h EXCEPT !.ret = <<>>]]
                  /\ UNCHANGED idx
    /\ UNCHANGED << sched, feed, storeUp, outages, table, running, fetch_interval,
                    last_fetch_time, total_alerts_sent, cyc, new_announcements, alerts >>

\* a fetch that repeats a failed request once within the cycle
FetchRetry(t) ==
    /\ pc[t] = "fetch"
    /\ \E o \in FetchOutcomes, o2 \in FetchOutcomes :
         LET res == IF o = "ok" THEN o ELSE o2
             h == [hist[cyc[t]] EXCEPT !.gets = IF o = "ok" THEN @ + 1 ELSE @ + 2,
                                       !.src = IF res = "ok" THEN "ok" ELSE "failed"]
         IN  IF res = "ok" /\ feed # <<>>
             THEN /\ data' = [data EXCEPT ![t] = feed]
                  /\ idx' = [idx EXCEPT ![t] = 1]
                  /\ pc' = [pc EXCEPT ![t] = "item"]
                  /\ hist' = [hist EXCEPT ![cyc[t]] = h]
             ELSE /\ data' = [data EXCEPT ![t] = IF res = "ok" THEN feed ELSE <<>>]
                  /\ pc' = [pc EXCEPT ![t] = "ret"]
                  /\ hist' = [hist EXCEPT ![cyc[t]] = [h EXCEPT !.ret = <<>>]]
                  /\ UNCHANGED idx
    /\ UNCHANGED << sched, feed, storeUp, outages, table, running, fetch_interval,
                    last_fetch_time, total_alerts_sent, cyc, new_announcements, alerts >>

\* a fetch that walks the list from its second item
FetchSkipFirst(t) ==
    /\ pc[t] = "fetch"
    /\ \E o \in FetchOutcomes :
         LET h == [hist[cyc[t]] EXCEPT !.gets = @ + 1,
                                       !.src = IF o = "ok" THEN "ok" ELSE "failed"]
         IN  IF o = "ok" /\ Len(feed) > 1
             THEN /\ data' = [data EXCEPT ![t] = Tail(feed)]
                  /\ idx' = [idx EXCEPT ![t] = 1]
                  /\ pc' = [pc EXCEPT ![t] = "item"]
                  /\ hist' = [hist EXCEPT ![cyc[t]] = h]
             ELSE /\ data' = [data EXCEPT ![t] = IF o = "ok" THEN feed ELSE <<>>]
                  /\ pc' = [pc EXCEPT ![t] = "ret"]
                  /\ hist' = [hist EXCEPT ![cyc[t]] = [h EXCEPT !.ret = <<>>]]
                  /\ UNCHANGED idx
    /\ UNCHANGED << sched, feed, storeUp, outages, table, running, fetch_interval,
                    last_fetch_time, total_alerts_sent, cyc, new_announcements, alerts >>

\* fetch_nse_data: session.get(NSE_API_URL, timeout=15), status check, response.json()
Fetch(t) ==
    /\ pc[t] = "fetch"
    /\ \E o \in FetchOutcomes :
         LET h == [hist[cyc[t]] EXCEPT !.gets = @ + 1,
                                       !.src = IF o = "ok" THEN "ok" ELSE "failed"]
         IN  IF o = "ok" /\ feed # <<>>
             THEN /\ data' = [data EXCEPT ![t] = feed]
                  /\ idx' = [idx EXCEPT ![t] = 1]
                  /\ pc' = [pc EXCEPT ![t] = "item"]
                  /\ hist' = [hist EXCEPT ![cyc[t]] = h]
             ELSE \* return [] (or the empty new_announcements of an empty list)
                  /\ data' = [data EXCEPT ![t] = IF o = "ok" THEN feed ELSE <<>>]
                  /\ pc' = [pc EXCEPT ![t] = "ret"]
                  /\ hist' = [hist EXCEPT ![cyc[t]] = [h EXCEPT !.ret = <<>>]]
                  /\ UNCHANGED idx
    /\ UNCHANGED << sched, feed, storeUp, outages, table, running, fetch_interval,
                    last_fetch_time, total_alerts_sent, cyc, new_announcements, alerts >>

\* a walk without the handler around the item: what an item raises ends the
\* walk in the outer handler, which returns []
CheckItemAbort(t) ==
    /\ pc[t] = "item"
    /\ LET item == data[t][idx[t]]
       IN  IF Raises(item)
           THEN /\ pc' = [pc EXCEPT ![t] = "ret"]
                /\ hist' = [hist EXCEPT ![cyc[t]] = [@ EXCEPT !.ret = <<>>]]
                /\ UNCHANGED << idx, storeUp, outages >>
           ELSE IF ~Essential(item)
           THEN /\ Advance(t, hist, hist[cyc[t]], new_announcements[t])
                /\ UNCHANGED << storeUp, outages >>
           ELSE \E up \in BOOLEAN :
                  /\ Touch(up)
                  /\ LET H == hist
                         h == StoreOp(H[cyc[t]], idx[t], ~up)
                     IN  IF ~up
                         THEN \* the query raises: except Exception as item_error
                              Advance(t, H, h, new_announcements[t])
                         ELSE IF Exists(KeyOf(item))
                         THEN Advance(t, H, h, new_announcements[t])
                         ELSE /\ pc' = [pc EXCEPT ![t] = "insert"]
                              /\ hist' = [H EXCEPT ![cyc[t]] = h]
                              /\ UNCHANGED idx
    /\ UNCHANGED << sched, feed, table, running, fetch_interval, last_fetch_time,
                    total_alerts_sent, cyc, data, new_announcements, alerts >>

\* fetch_nse_data, one item: strip the fields, parse the date, skip when that
\* raised or when symbol or title is empty, else query the table for the pair
CheckItem(t) ==
    /\ pc[t] = "item"
    /\ LET item == data[t][idx[t]]
       IN  IF Raises(item) \/ ~Essential(item)
           THEN /\ Advance(t, hist, hist[cyc[t]], new_announcements[t])
                /\ UNCHANGED << storeUp, outages >>
           ELSE \E up \in BOOLEAN :
                  /\ Touch(up)
                  /\ LET H == hist
                         h == StoreOp(H[cyc[t]], idx[t], ~up)
                     IN  IF ~up
                         THEN \* the query raises: except Exception as item_error
                              Advance(t, H, h, new_announcements[t])
                         ELSE IF Exists(KeyOf(item))
                         THEN Advance(t, H, h, new_announcements[t])
                         ELSE /\ pc' = [pc EXCEPT ![t] = "insert"]
                              /\ hist' = [H EXCEPT ![cyc[t]] = h]
                              /\ UNCHANGED idx
    /\ UNCHANGED << sched, feed, table, running, fetch_interval, last_fetch_time,
                    total_alerts_sent, cyc, data, new_announcements, alerts >>

\* an insert without the rollback: the row of a failed commit stays pending in
\* the session and reaches the table all the same
InsertItemNoRollback(t) ==
    /\ pc[t] = "insert"
    /\ \E up \in BOOLEAN :
         /\ Touch(up)
         /\ LET item == data[t][idx[t]]
                h    == [StoreOp(hist[cyc[t]], idx[t], ~up) EXCEPT
                           !.rolled = IF up THEN @ ELSE Append(@, idx[t])]
            IN  /\ table' = InsertRow(RowOf(item))
                /\ IF ~up
                   THEN /\ Advance(t, hist, h, new_announcements[t])
                        /\ UNCHANGED new_announcements
                   ELSE /\ new_announcements' =
                              [new_announcements EXCEPT ![t] = Append(@, idx[t])]
                        /\ hist' = [hist EXCEPT ![cyc[t]] =
                                      [h EXCEPT !.commits = Append(@, idx[t])]]
                        /\ pc' = [pc EXCEPT ![t] = "notify"]
                        /\ UNCHANGED idx
    /\ UNCHANGED << sched, feed, running, fetch_interval, last_fetch_time,
                    total_alerts_sent, cyc, data, alerts >>

\* an insert that appends and alerts before it knows the commit succeeded
InsertItemOptimistic(t) ==
    /\ pc[t] = "insert"
    /\ \E up \in BOOLEAN :
         /\ Touch(up)
         /\ LET item == data[t][idx[t]]
                h    == StoreOp(hist[cyc[t]], idx[t], ~up)
            IN  /\ table' = IF up THEN InsertRow(RowOf(item)) ELSE table
                /\ new_announcements' =
                       [new_announcements EXCEPT ![t] = Append(@, idx[t])]
                /\ hist' = [hist EXCEPT ![cyc[t]] =
                              [h EXCEPT !.commits = IF up THEN Append(@, idx[t]) ELSE @]]
                /\ pc' = [pc EXCEPT ![t] = "notify"]
                /\ UNCHANGED idx
    /\ UNCHANGED << sched, feed, running, fetch_interval, last_fetch_time,
                    total_alerts_sent, cyc, data, alerts >>

\* an insert that writes over the newest row instead of adding one
InsertItemReplace(t) ==
    /\ pc[t] = "insert"
    /\ \E up \in BOOLEAN :
         /\ Touch(up)
         /\ LET item == data[t][idx[t]]
                H    == hist
                h    == [StoreOp(H[cyc[t]], idx[t], ~up) EXCEPT
                           !.rolled = IF up THEN @ ELSE Append(@, idx[t])]
            IN  IF ~up
                THEN \* except Exception as db_error: db.session.rollback()
                     /\ Advance(t, H, h, new_announcements[t])
                     /\ UNCHANGED << table, new_announcements >>
                ELSE /\ table' = IF table = <<>> THEN InsertRow(RowOf(item))
                               ELSE [table EXCEPT ![Len(table)] = RowOf(item)]
                     /\ new_announcements' =
                            [new_announcements EXCEPT ![t] = Append(@, idx[t])]
                     /\ hist' = [H EXCEPT ![cyc[t]] =
                                   [h EXCEPT !.commits = Append(@, idx[t])]]
                     /\ pc' = [pc EXCEPT ![t] = "notify"]
                     /\ UNCHANGED idx
    /\ UNCHANGED << sched, feed, running, fetch_interval, last_fetch_time,
                    total_alerts_sent, cyc, data, alerts >>

\* fetch_nse_data, "if not exists": db.session.add(ann); db.session.commit();
\* new_announcements.append(ann)
InsertItem(t) ==
    /\ pc[t] = "insert"
    /\ \E up \in BOOLEAN :
         /\ Touch(up)
         /\ LET item == data[t][idx[t]]
                H    == hist
                h    == [StoreOp(H[cyc[t]], idx[t], ~up) EXCEPT
                           !.rolled = IF up THEN @ ELSE Append(@, idx[t])]
            IN  IF ~up
                THEN \* except Exception as db_error: db.session.rollback()
                     /\ Advance(t, H, h, new_announcements[t])
                     /\ UNCHANGED << table, new_announcements >>
                ELSE /\ table' = InsertRow(RowOf(item))
                     /\ new_announcements' =
                            [new_announcements EXCEPT ![t] = Append(@, idx[t])]
                     /\ hist' = [H EXCEPT ![cyc[t]] =
                                   [h EXCEPT !.commits = Append(@, idx[t])]]
                     /\ pc' = [pc EXCEPT ![t] = "notify"]
                     /\ UNCHANGED idx
    /\ UNCHANGED << sched, feed, running, fetch_interval, last_fetch_time,
                    total_alerts_sent, cyc, data, alerts >>

\* an alert whose failure escapes to the outer handler of fetch_nse_data,
\* which returns []
NotifyItemAbort(t) ==
    /\ pc[t] = "notify"
    /\ \E ok \in BOOLEAN :
         /\ alerts' = Append(alerts, [cycle |-> cyc[t], pos |-> idx[t],
                                      key |-> KeyOf(data[t][idx[t]]), ok |-> ok])
         /\ IF ok
            THEN Advance(t, hist, hist[cyc[t]], new_announcements[t])
            ELSE /\ pc' = [pc EXCEPT ![t] = "ret"]
                 /\ hist' = [hist EXCEPT ![cyc[t]] = [@ EXCEPT !.ret = <<>>]]
                 /\ UNCHANGED idx
    /\ UNCHANGED << sched, feed, storeUp, outages, table, running, fetch_interval,
                    last_fetch_time, total_alerts_sent, cyc, data, new_announcements >>

\* an alert that is posted a second time when the first POST failed
NotifyItemRetry(t) ==
    /\ pc[t] = "notify"
    /\ \E ok \in BOOLEAN : \E again \in BOOLEAN :
         LET a == [cycle |-> cyc[t], pos |-> idx[t],
                   key |-> KeyOf(data[t][idx[t]]), ok |-> ok]
         IN  alerts' = IF ok THEN Append(alerts, a)
                       ELSE Append(Append(alerts, a), [a EXCEPT !.ok = again])
    /\ Advance(t, hist, hist[cyc[t]], new_announcements[t])
    /\ UNCHANGED << sched, feed, storeUp, outages, table, running, fetch_interval,
                    last_fetch_time, total_alerts_sent, cyc, data, new_announcements >>

\* send_telegram_alert: the POST succeeds (200) or fails (timeout, other status,
\* exception); either way the function returns normally
NotifyItem(t) ==
    /\ pc[t] = "notify"
    /\ \E ok \in BOOLEAN :
         alerts' = Append(alerts, [cycle |-> cyc[t], pos |-> idx[t],
                                   key |-> KeyOf(data[t][idx[t]]), ok |-> ok])
    /\ Advance(t, hist, hist[cyc[t]], new_announcements[t])
    /\ UNCHANGED << sched, feed, storeUp, outages, table, running, fetch_interval,
                    last_fetch_time, total_alerts_sent, cyc, data, new_announcements >>

\* fetch_and_alert after fetch_nse_data returned: after_count, the counter,
\* last_fetch_time
Finish(t) ==
    /\ pc[t] = "ret"
    /\ \E up \in BOOLEAN :
         /\ Touch(up)
         /\ LET c == cyc[t]
                H == hist
                n == Len(hist[c].ret)
            IN  IF up
                THEN /\ total_alerts_sent' = total_alerts_sent + n
                     /\ last_fetch_time' = c
                     /\ hist' = [H EXCEPT ![c] =
                           [@ EXCEPT !.st = "done",
                                     !.reply = Reply(t),
                                     \* if len(new_announcements) > 5:
                                     \*     self.send_bulk_alert_summary(...)
                                     !.bulk = IF n > BulkThreshold
                                              THEN Append(@, Len(alerts)) ELSE @]]
                ELSE \* the count raises: except Exception, the error is logged
                     /\ hist' = [H EXCEPT ![c] = [@ EXCEPT !.st = "done",
                                                           !.raised = TRUE,
                                                           !.reply = Reply(t)]]
                     /\ UNCHANGED << total_alerts_sent, last_fetch_time >>
    /\ pc' = [pc EXCEPT ![t] = After(t)]
    /\ cyc' = [cyc EXCEPT ![t] = 0]
    \* the locals of the call are gone
    /\ data' = [data EXCEPT ![t] = <<>>]
    /\ idx' = [idx EXCEPT ![t] = 0]
    /\ new_announcements' = [new_announcements EXCEPT ![t] = <<>>]
    /\ UNCHANGED << sched, feed, table, running, fetch_interval, alerts >>

\* fetch_and_alert after fetch_nse_data returned, as far as the first half of
\* "self.total_alerts_sent += len(new_announcements)": after_count, then the
\* field is read; another thread may run before the sum is stored
FinishCount(t) ==
    /\ pc[t] = "ret"
    /\ \E up \in BOOLEAN :
         /\ Touch(up)
         /\ IF up
            THEN /\ loaded' = [loaded EXCEPT ![t] = total_alerts_sent]
                 /\ pc' = [pc EXCEPT ![t] = "add"]
                 /\ UNCHANGED << hist, cyc, data, idx, new_announcements >>
            ELSE \* the count raises: except Exception, the error is logged
                 /\ hist' = [hist EXCEPT ![cyc[t]] = [@ EXCEPT !.st = "done",
                                                               !.raised = TRUE,
                                                               !.reply = Reply(t)]]
                 /\ pc' = [pc EXCEPT ![t] = After(t)]
                 /\ cyc' = [cyc EXCEPT ![t] = 0]
                 /\ data' = [data EXCEPT ![t] = <<>>]
                 /\ idx' = [idx EXCEPT ![t] = 0]
                 /\ new_announcements' = [new_announcements EXCEPT ![t] = <<>>]
                 /\ UNCHANGED loaded
    /\ UNCHANGED << scheduler, status_reply, boots, clock, nap, slept, shutdown_sent,
                    feed, table, running, fetch_interval, last_fetch_time,
                    total_alerts_sent, alerts >>

\* fetch_and_alert, the second half of the "+=" and the rest: the sum of the
\* value read and the count is stored (when the list is not empty), the
\* summary, last_fetch_time
FinishAdd(t) ==
    /\ pc[t] = "add"
    /\ LET c == cyc[t]
           n == Len(hist[c].ret)
       IN  /\ total_alerts_sent' = IF n > 0 THEN loaded[t] + n ELSE total_alerts_sent
           /\ last_fetch_time' = c
           /\ hist' = [hist EXCEPT ![c] =
                 [@ EXCEPT !.st = "done",
                           !.reply = Reply(t),
                           !.bulk = IF n > BulkThreshold
                                    THEN Append(@, Len(alerts)) ELSE @]]
    /\ pc' = [pc EXCEPT ![t] = After(t)]
    /\ cyc' = [cyc EXCEPT ![t] = 0]
    /\ data' = [data EXCEPT ![t] = <<>>]
    /\ idx' = [idx EXCEPT ![t] = 0]
    /\ new_announcements' = [new_announcements EXCEPT ![t] = <<>>]
    /\ loaded' = [loaded EXCEPT ![t] = 0]
    /\ UNCHANGED << scheduler, status_reply, boots, clock, nap, slept, shutdown_sent,
                    feed, storeUp, outages, table, running, fetch_interval, alerts >>

\* the service while no /force-fetch request and no shutdown signal arrives
NextSeq ==
    \/ Start
    \/ Serve
    \/ LoopTop
    \/ LoopSleep
    \/ \E t \in Threads : BeginCycle(t)
    \/ \E t \in Threads : Fetch(t)
    \/ \E t \in Threads : CheckItem(t)
    \/ \E t \in Threads : InsertItem(t)
    \/ \E t \in Threads : NotifyItem(t)
    \/ \E t \in Threads : Finish(t)

Next ==
    \/ NextSeq
    \/ ForceFetch
    \/ Stop

\* the whole service: initial fetch, monitoring loop, manual triggers, stop
Spec == Init /\ [][Next]_vars

\* the service left to its schedule: the initial fetch, then the cycles of the
\* monitoring loop, one after the other
SeqSpec == Init /\ [][NextSeq]_vars

\* ------------------------------------------------- scheduler.py
Minutes == 0..59

\* the jobs of start_scheduler whose trigger matches a minute of the week:
\* CronTrigger(day_of_week='mon-fri', hour='9-15', minute='*/5') and
\* CronTrigger(day_of_week='mon-fri', hour=16, minute=0)
JobsAt(wd, hr, mn) ==
    { j \in {"nse_market_hours_fetch"} :
          wd <= 4 /\ 9 <= hr /\ hr <= 15 /\ mn % 5 = 0 }
    \cup
    { j \in {"nse_post_market_fetch"} : wd <= 4 /\ hr = 16 /\ mn = 0 }

\* start_scheduler(), at any minute of the week: the jobs are added and the
\* scheduler started; the job with trigger 'date' and no run date runs at once
StartScheduler ==
    /\ ~scheduler.running
    /\ \E wd \in Weekdays, hr \in Hours, mn \in Minutes :
         scheduler' = [running |-> TRUE, wd |-> wd, hr |-> hr, mn |-> mn,
                       fired |-> {"initial_test_fetch"}]
    /\ UNCHANGED << loaded, status_reply, boots, clock, nap, slept, shutdown_sent, feed, storeUp,
                    outages, table, running, fetch_interval, last_fetch_time,
                    total_alerts_sent, pc, cyc, data, idx, new_announcements, alerts, hist >>

\* the next minute begins: the scheduler fires the jobs whose trigger matches
Minute ==
    /\ scheduler.running
    /\ LET mn == (scheduler.mn + 1) % 60
           hr == IF mn = 0 THEN (scheduler.hr + 1) % 24 ELSE scheduler.hr
           wd == IF mn = 0 /\ hr = 0 THEN (scheduler.wd + 1) % 7 ELSE scheduler.wd
       IN  scheduler' = [running |-> TRUE, wd |-> wd, hr |-> hr, mn |-> mn,
                         fired |-> JobsAt(wd, hr, mn)]
    /\ UNCHANGED << loaded, status_reply, boots, clock, nap, slept, shutdown_sent, feed, storeUp,
                    outages, table, running, fetch_interval, last_fetch_time,
                    total_alerts_sent, pc, cyc, data, idx, new_announcements, alerts, hist >>

CronNext ==
    \/ StartScheduler
    \/ Minute

\* ------------------------------------------------- the counter, statement by statement
\* the database does not fail
RaceInit ==
    /\ feed \in SeqsUpTo(RawItems, LiveBatch)
    /\ outages = MaxOutages
    /\ Boot

\* the service with /force-fetch requests arriving, never stopped, the "+=" of
\* fetch_and_alert in its two halves
RaceNext ==
    \/ Start
    \/ Serve
    \/ LoopTop
    \/ LoopSleep
    \/ ForceFetch
    \/ \E t \in Threads : BeginCycle(t)
    \/ \E t \in Threads : Fetch(t)
    \/ \E t \in Threads : CheckItem(t)
    \/ \E t \in Threads : InsertItem(t)
    \/ \E t \in Threads : NotifyItem(t)
    \/ \E t \in Threads : FinishCount(t)
    \/ \E t \in Threads : FinishAdd(t)

RaceSpec == RaceInit /\ [][RaceNext]_vars

\* ------------------------------------------------- status queries
\* the service with GET / and GET /force-fetch requests arriving, never stopped
StatusNext ==
    \/ NextSeq
    \/ ForceFetch
    \/ Status

\* ------------------------------------------------- the loop left running
\* monitoring_loop keeps nothing of the cycles it has run: the record of the
\* finished cycles is dropped, and the loop goes on
Forget ==
    /\ hist # <<>>
    /\ \A t \in Threads : cyc[t] = 0
    /\ hist' = <<>>
    /\ alerts' = <<>>
    /\ UNCHANGED << sched, feed, storeUp, outages, table, running, fetch_interval,
                    last_fetch_time, total_alerts_sent, pc, cyc, data, idx,
                    new_announcements >>

\* a step of the program
Step == NextSeq \/ Cooldown

\* a store operation finds the database back
StoreBack == Step /\ ~storeUp /\ storeUp'

\* a GET of the monitoring loop is answered with a list
SourceOk == Fetch("loop") /\ hist'[cyc["loop"]].src = "ok"

\* the items of a list the endpoint keeps serving: those of RawItems and one
\* with symbol and title whose date is a JSON number
NumberDated ==
    [dict |-> TRUE, symbol |-> <<"A">>, sm_name |-> <<"n">>, desc |-> <<"t">>,
     attchmntFile |-> <<"f">>, attchmntText |-> <<"x">>,
     an_dt |-> "number", dt |-> "none", sort_date |-> "none"]

LiveItems == RawItems \cup { NumberDated }

LiveInit ==
    /\ feed \in SeqsUpTo(LiveItems, LiveBatch)
    /\ outages = 0
    /\ Boot

LiveNext ==
    \/ NextSeq
    \/ LoopFault
    \/ Cooldown
    \/ Forget

\* the service never stopped: the threads keep being scheduled (the main thread
\* and the daemon thread are ordinary OS threads), and the database and the
\* endpoint, when they fail, come back: an outage ends, and of the GETs of the
\* loop some are answered
LiveSpec ==
    /\ LiveInit
    /\ [][LiveNext]_vars
    /\ WF_vars(Step)
    /\ WF_vars(Forget)
    /\ SF_vars(StoreBack)
    /\ SF_vars(SourceOk)

\* ------------------------------------------------- the loop and stop()
\* a step of the monitoring loop thread
LoopStep ==
    \/ LoopTop
    \/ LoopSleep
    \/ Cooldown
    \/ BeginCycle("loop")
    \/ Fetch("loop")
    \/ CheckItem("loop")
    \/ InsertItem("loop")
    \/ NotifyItem("loop")
    \/ Finish("loop")

StopNext ==
    \/ NextSeq
    \/ LoopFault
    \/ Cooldown
    \/ Forget
    \/ Stop

\* the service with stop() called at any time while it serves: the daemon
\* thread of the loop keeps being scheduled
StopSpec ==
    /\ LiveInit
    /\ [][StopNext]_vars
    /\ WF_vars(LoopStep)
    /\ WF_vars(Forget)

\* ------------------------------------------------- the process restarted
\* the process ends (killed, or exited after a signal) and is started again:
\* NSEMonitorService() anew, the threads and their locals gone; the database
\* keeps its rows
Restart ==
    /\ Len(boots) < MaxRestarts
    /\ pc["main"] # "init"
    /\ boots' = Append(boots, [cycles |-> Len(hist), rows |-> Len(table)])
    /\ running' = FALSE
    /\ fetch_interval' = MarketInterval
    /\ last_fetch_time' = 0
    /\ total_alerts_sent' = 0
    /\ pc' = [t \in Threads |-> IF t = "main" THEN "init" ELSE "unborn"]
    /\ cyc' = [t \in Threads |-> 0]
    /\ data' = [t \in Threads |-> <<>>]
    /\ idx' = [t \in Threads |-> 0]
    /\ new_announcements' = [t \in Threads |-> <<>>]
    /\ nap' = 0
    /\ slept' = 0
    /\ loaded' = [t \in Threads |-> 0]
    /\ UNCHANGED << scheduler, status_reply, clock, shutdown_sent, feed, storeUp,
                    outages, table, alerts, hist >>

\* start() up to the end of its initial fetch, and the process restarted at
\* any point of it
RestartNext ==
    \/ Start
    \/ Restart
    \/ \E t \in Threads : BeginCycle(t)
    \/ \E t \in Threads : Fetch(t)
    \/ \E t \in Threads : CheckItem(t)
    \/ \E t \in Threads : InsertItem(t)
    \/ \E t \in Threads : NotifyItem(t)
    \/ \E t \in Threads : Finish(t)

RestartSpec == LiveInit /\ [][RestartNext]_vars

StatusSpec == LiveInit /\ [][StatusNext]_vars

\* ------------------------------------------- a list of items differing in one field
\* an item, and the items that differ from it in one field: the case of the
\* symbol, blanks around the symbol, the case of the title, the date, the link,
\* the display name, the description
Plain ==
    [dict |-> TRUE, symbol |-> <<"A">>, sm_name |-> <<"n">>, desc |-> <<"t">>,
     attchmntFile |-> <<"f">>, attchmntText |-> <<"x">>,
     an_dt |-> "iso", dt |-> "none", sort_date |-> "none"]

KeyItems ==
    { Plain,
      [Plain EXCEPT !.symbol = <<"a">>],
      [Plain EXCEPT !.symbol = <<Space, "A", Space>>],
      [Plain EXCEPT !.desc = <<"T">>],
      [Plain EXCEPT !.an_dt = "none"],
      [Plain EXCEPT !.attchmntFile = <<"g">>],
      [Plain EXCEPT !.sm_name = <<"m">>],
      [Plain EXCEPT !.attchmntText = <<"y">>] }

KeyInit ==
    /\ feed \in SeqsUpTo(KeyItems, KeyBatch)
    /\ outages = MaxOutages
    /\ Boot

\* start() up to the end of its initial fetch
KeyNext ==
    \/ Start
    \/ \E t \in Threads : BeginCycle(t)
    \/ \E t \in Threads : Fetch(t)
    \/ \E t \in Threads : CheckItem(t)
    \/ \E t \in Threads : InsertItem(t)
    \/ \E t \in Threads : NotifyItem(t)
    \/ \E t \in Threads : Finish(t)

KeySpec == KeyInit /\ [][KeyNext]_vars

\* ------------------------------------------- a list of items with several date fields
\* strings as date fields: in the first format, in no known format, or none
DateStrings == {"iso", "other", "none"}

DatedItems ==
    [dict : {TRUE}, symbol : { <<"A">> }, sm_name : { <<"n">> }, desc : { <<"t">> },
     attchmntFile : { <<"f">> }, attchmntText : { <<"x">> },
     an_dt : DateStrings, dt : DateStrings, sort_date : DateStrings]

DateInit ==
    /\ feed \in SeqsUpTo(DatedItems, DateBatch)
    /\ outages = MaxOutages
    /\ Boot

\* start() up to the end of its initial fetch
DateNext ==
    \/ Start
    \/ \E t \in Threads : BeginCycle(t)
    \/ \E t \in Threads : Fetch(t)
    \/ \E t \in Threads : CheckItem(t)
    \/ \E t \in Threads : InsertItem(t)
    \/ \E t \in Threads : NotifyItem(t)
    \/ \E t \in Threads : Finish(t)

DateSpec == DateInit /\ [][DateNext]_vars

\* ------------------------------------------------------ a list of many new items
Letters == << "A", "B", "C", "D", "E", "F", "G", "H", "I", "J" >>

\* a list of n items with n different symbols
ManyItems(n) == [k \in 1..n |-> [Plain EXCEPT !.symbol = << Letters[k] >>]]

\* the endpoint serves up to BulkMax different items, or such a list with its
\* first item once more at the end
BulkInit ==
    /\ feed \in { ManyItems(n) : n \in 0..BulkMax } \cup
                 { Append(ManyItems(n), ManyItems(n)[1]) : n \in 1..BulkMax }
    /\ outages = 0
    /\ Boot

\* start() up to the end of its initial fetch
BulkNext ==
    \/ Start
    \/ \E t \in Threads : BeginCycle(t)
    \/ \E t \in Threads : Fetch(t)
    \/ \E t \in Threads : CheckItem(t)
    \/ \E t \in Threads : InsertItem(t)
    \/ \E t \in Threads : NotifyItem(t)
    \/ \E t \in Threads : Finish(t)

BulkSpec == BulkInit /\ [][BulkNext]_vars

\* ------------------------------------------------- a list of items of every shape
\* the endpoint serves items of every shape; the database does not fail
NormInit ==
    /\ feed \in SeqsUpTo(OddItems, NormBatch)
    /\ outages = MaxOutages
    /\ Boot

\* start() up to the end of its initial fetch
NormNext ==
    \/ Start
    \/ \E t \in Threads : BeginCycle(t)
    \/ \E t \in Threads : Fetch(t)
    \/ \E t \in Threads : CheckItem(t)
    \/ \E t \in Threads : InsertItem(t)
    \/ \E t \in Threads : NotifyItem(t)
    \/ \E t \in Threads : Finish(t)

NormSpec == NormInit /\ [][NormNext]_vars

\* ------------------------------------------------- the scheduler by the second
\* the endpoint serves an empty list: the cycles store nothing
SchedInit == Init /\ feed = <<>>

\* start(), the monitoring loop with its sleep taken second by second and its
\* handler, and stop()
SchedNext ==
    \/ Start
    \/ Serve
    \/ LoopTop
    \/ SleepEnter
    \/ SleepTick
    \/ LoopFault
    \/ Cooldown
    \/ Stop
    \/ \E t \in Threads : BeginCycle(t)
    \/ \E t \in Threads : Fetch(t)
    \/ \E t \in Threads : Finish(t)

SchedSpec == SchedInit /\ [][SchedNext]_vars

\* ------------------------------------------------- the loop around the clock
\* the loop chooses its interval as the hours of the week pass
ClockNext ==
    \/ Start
    \/ Serve
    \/ Hour
    \/ LoopTop
    \/ LoopSleep
    \/ \E t \in Threads : BeginCycle(t)
    \/ \E t \in Threads : Fetch(t)
    \/ \E t \in Threads : Finish(t)

ClockSpec == SchedInit /\ [][ClockNext]_vars

\* scheduler.py, run on its own
CronSpec == SchedInit /\ [][CronNext]_vars

\* ==================================================================== claims
Cycles == 1..Len(hist)

\* rows of the table holding a pair
Rows(key) == { r \in 1..Len(table) : RowKey(table[r]) = key }

\* the alerts that carry a pair
AlertsFor(key) == { i \in 1..Len(alerts) : alerts[i].key = key }

\* positions alerted by a cycle, in the order of the calls
AlertPos(c) ==
    LET sel == SelectSeq(alerts, LAMBDA a : a.cycle = c)
    IN  [i \in 1..Len(sel) |-> sel[i].pos]

Iota(a, b) == [i \in 1..(b - a + 1) |-> a + i - 1]

Front(s) == SubSeq(s, 1, Len(s) - 1)

\* the cycle's call of send_telegram_alert is the next step of its thread
Notifying(c) == \E t \in Threads : cyc[t] = c /\ pc[t] = "notify"

\* fetch_nse_data of the cycle has returned
Returned(c) == hist[c].st = "done" \/ \E t \in Threads : cyc[t] = c /\ pc[t] = "ret"

\* fetch_nse_data ran on the list with every store operation succeeding
FullRun(c) == Returned(c) /\ hist[c].src = "ok" /\ hist[c].errAt = 0

\* C1: of two runs of fetch_nse_data in sequence on the same list, with the store
\* available in both, the second returns an empty list and every pair of the list
\* is stored at most once.
C1_Idempotent ==
    \A c1 \in Cycles : \A c2 \in Cycles :
        (c1 < c2 /\ FullRun(c1) /\ FullRun(c2)) =>
            /\ hist[c2].ret = <<>>
            /\ hist[c2].commits = <<>>
            /\ \A i \in 1..Len(feed) : Cardinality(Rows(KeyOf(feed[i]))) <= 1

C1_Witness ==
    \E c1 \in Cycles : \E c2 \in Cycles :
        /\ c1 < c2 /\ FullRun(c1) /\ FullRun(c2)
        /\ Len(hist[c1].commits) = 2

\* C2: the announcements table holds at most one row per (symbol, title) pair in
\* every reachable state, also when two cycles process the same item concurrently.
C2_OneRowPerPair ==
    \A r1 \in 1..Len(table) : \A r2 \in 1..Len(table) :
        RowKey(table[r1]) = RowKey(table[r2]) => r1 = r2

\* C3: at most one thread is inside fetch_and_alert at any time.
C3_OneCycleAtATime == Cardinality({ t \in Threads : InCycle(t) }) <= 1

\* C4: send_telegram_alert is called at most once for each (symbol, title) pair,
\* over all cycles.
C4_NoDoubleAlert ==
    \A i \in 1..Len(alerts) : \A j \in 1..Len(alerts) :
        alerts[i].key = alerts[j].key => i = j

\* C5: the alerts of a cycle are, one each and in order, the records the cycle
\* committed (the newest commit is alerted by the cycle's next step); items
\* skipped, found in the table or whose insert failed get none.
C5_AlertPerCommit ==
    \A c \in Cycles :
        AlertPos(c) = IF Notifying(c) THEN Front(hist[c].commits) ELSE hist[c].commits

C5_Witness ==
    \E c \in Cycles :
        /\ hist[c].st = "done" /\ hist[c].src = "ok"
        /\ Len(hist[c].commits) = 1
        /\ Len(AlertPos(c)) = 1
        /\ Len(feed) = 2

\* C6: the alerts of one cycle are issued in the order of the items in the
\* fetched list: a later alert is for a later position of the list, and each
\* alert carries the pair of the item at its position.
C6_AlertOrder ==
    \A i \in 1..Len(alerts) :
        /\ alerts[i].pos \in 1..Len(feed)
        /\ Essential(feed[alerts[i].pos])
        /\ alerts[i].key = KeyOf(feed[alerts[i].pos])
        /\ \A j \in 1..Len(alerts) :
              (i < j /\ alerts[i].cycle = alerts[j].cycle) =>
                  alerts[i].pos < alerts[j].pos

C6_Witness ==
    \E c \in Cycles : hist[c].st = "done" /\ AlertPos(c) = <<1, 2>>

\* C7: a failed alert leaves the record in the table and in the list the cycle
\* returns, and the cycle goes on: it visits every remaining item, so that when
\* no store operation failed every valid item of the list is in the table at
\* the end.
C7_AlertFailureHarmless ==
    \A i \in 1..Len(alerts) :
        LET a == alerts[i]
            c == a.cycle
        IN  ~a.ok =>
              /\ Exists(a.key)
              /\ \E n \in 1..Len(hist[c].commits) : hist[c].commits[n] = a.pos
              /\ \A t \in Threads :
                    (cyc[t] = c /\ pc[t] = "ret") => idx[t] = Len(feed) + 1
              /\ Returned(c) =>
                    /\ hist[c].ret = hist[c].commits
                    /\ hist[c].errAt = 0 =>
                          \A p \in 1..Len(feed) :
                              Essential(feed[p]) =>
                                  Exists(KeyOf(feed[p]))

C7_Witness ==
    \E c \in Cycles :
        /\ hist[c].st = "done"
        /\ hist[c].commits = <<1, 2>>
        /\ \E i \in 1..Len(alerts) :
              alerts[i].cycle = c /\ alerts[i].pos = 1 /\ ~alerts[i].ok

\* C8: when the request fails (timeout, status other than 200, body that is no
\* JSON list) fetch_nse_data returns an empty list, performs no store operation,
\* commits nothing, sends no alert, and has issued one request only.
C8_SourceFailureEmpty ==
    \A c \in Cycles :
        hist[c].src = "failed" =>
            /\ Returned(c)
            /\ hist[c].ret = <<>>
            /\ hist[c].commits = <<>>
            /\ hist[c].lastOp = 0
            /\ AlertPos(c) = <<>>
            /\ hist[c].gets = 1

C8_Witness ==
    \E c \in Cycles :
        /\ hist[c].src = "failed" /\ hist[c].st = "done"
        /\ \E p \in 1..Len(feed) : Essential(feed[p])
        /\ table = <<>>

\* C9: once a store operation of a cycle has failed, the cycle attempts no store
\* operation for the later items of the list.
C9_AbortAfterStoreFailure ==
    \A c \in Cycles : hist[c].errAt # 0 => hist[c].lastOp = hist[c].errAt

\* the list holds new items only: valid, pairwise different, none stored before c
AllNew(c) ==
    /\ feed # <<>>
    /\ \A b \in 1..(c - 1) : hist[b].commits = <<>>
    /\ \A i \in 1..Len(feed) : Essential(feed[i])
    /\ \A i \in 1..Len(feed) : \A j \in 1..Len(feed) :
          KeyOf(feed[i]) = KeyOf(feed[j]) => i = j

\* the store is lost after the k-th insert of cycle c and stays lost until
\* fetch_and_alert ends
LostAfter(c, k) ==
    /\ hist[c].src = "ok"
    /\ Returned(c)
    /\ IF k < Len(feed)
       THEN hist[c].errAt = k + 1 /\ ~hist[c].okAfterErr
       ELSE hist[c].errAt = 0 /\ hist[c].st = "done" /\ hist[c].raised

\* C10: a list of N new items, the store lost after the k-th insert of a cycle:
\* that cycle persists and alerts exactly items 1..k; the next cycle on the same
\* list, the store available, inserts and alerts exactly items k+1..N, and then
\* every item is stored once and alerted once.
C10_Recovery ==
    \A c \in Cycles : \A k \in 0..Len(feed) :
        (LostAfter(c, k) /\ AllNew(c)) =>
            /\ hist[c].commits = Iota(1, k)
            /\ AlertPos(c) = Iota(1, k)
            /\ (c + 1 \in Cycles /\ FullRun(c + 1)) =>
                  /\ hist[c + 1].commits = Iota(k + 1, Len(feed))
                  /\ AlertPos(c + 1) = Iota(k + 1, Len(feed))
                  /\ \A i \in 1..Len(feed) :
                        /\ Cardinality(Rows(KeyOf(feed[i]))) = 1
                        /\ Cardinality(AlertsFor(KeyOf(feed[i]))) = 1

C10_Witness ==
    \E c \in Cycles :
        /\ LostAfter(c, 1) /\ AllNew(c)
        /\ Len(feed) = 2
        /\ c + 1 \in Cycles /\ FullRun(c + 1)
        /\ hist[c + 1].st = "done"

\* every valid item of the list is in the table
AllPersisted ==
    \A p \in 1..Len(feed) : Essential(feed[p]) => Exists(KeyOf(feed[p]))

\* C11: no record is lost: while the loop keeps running, and the endpoint and
\* the database come back after their failures, every valid item the endpoint
\* keeps serving is in the table in the end; what one cycle failed to store a
\* later cycle stores
C11_NoRecordLost == <>AllPersisted

\* a first cycle found the endpoint or the database failing and stored nothing,
\* the next one has stored the valid items
C11_Witness ==
    /\ Len(hist) = 2
    /\ hist[1].commits = <<>>
    /\ hist[1].src = "failed" \/ hist[1].errAt # 0
    /\ hist[2].commits # <<>>
    /\ \E p \in 1..Len(feed) : Essential(feed[p])
    /\ AllPersisted

\* a step that starts a cycle: fetch_and_alert is entered
CycleStarts == Len(hist') > Len(hist)

\* C12: stop() cancels the schedule: once stop() has returned no cycle starts,
\* neither in the monitoring loop nor for a /force-fetch request
C12_NoCycleAfterStop == [][CycleStarts => running]_vars

\* C13: a sleeping loop leaves its sleep within one increment of stop(): once
\* the flag is cleared the loop sleeps no further second, in the interval
\* sleep as in the cooldown
C13_PromptWake == [][~running => slept' <= slept]_vars

\* C14: stop() is idempotent: a second call posts no second shutdown
\* notification
C14_StopIdempotent == shutdown_sent <= 1

\* the last cycle started
LastCycle == hist[Len(hist)]

\* C15: the loop never dies: while stop() is not called the monitoring loop is
\* never left, whatever a cycle or the loop body raised, and it starts a cycle
\* again and again
C15_LoopNeverDies ==
    /\ [](pc["loop"] # "exit")
    /\ []<><<BeginCycle("loop")>>_vars

\* the handler of the loop has caught an exception and slept its 60 seconds, and
\* the loop, back in its body, is about to call fetch_and_alert again
C15_Witness == pc["loop"] = "call" /\ nap = CooldownSecs /\ slept = nap

\* C16: a cycle of the loop that ended in an exception is followed by the
\* cooldown of 60 seconds, not by the interval sleep
C16_CooldownAfterError ==
    (pc["loop"] = "nap" /\ LastCycle.thr = "loop" /\ LastCycle.raised)
        => nap = CooldownSecs

\* C17: start() runs the one immediate cycle; every cycle of the monitoring
\* loop starts after a full interval sleep
C17_SleepBeforeCycle ==
    [][(CycleStarts /\ hist'[Len(hist')].thr = "loop")
          => (nap \in {MarketInterval, OffHoursInterval} /\ slept = nap)]_vars

\* Monday to Friday, from 9 AM to 6 PM
MarketHours(now) == now.wd \in 0..4 /\ 9 <= now.hr /\ now.hr < 18

\* the loop chooses its interval in this step
Selects == pc["loop"] = "top" /\ pc'["loop"] = "call"

\* C18: the interval the loop selects is 120 seconds exactly when the local
\* time is Monday to Friday between 9 AM and 6 PM, and 300 seconds otherwise
C18_IntervalPolicy ==
    [][Selects => /\ fetch_interval' \in {MarketInterval, OffHoursInterval}
                  /\ fetch_interval' = MarketInterval <=> MarketHours(clock)]_vars

\* C19: a /force-fetch request that arrives while a cycle is in progress starts
\* no second cycle
C19_NoSecondCycle ==
    [][(CycleStarts /\ hist'[Len(hist')].thr = "web") => Others("web") = {}]_vars

\* the cycle met a failure of the source or of the store
HitError(c) == hist[c].src = "failed" \/ hist[c].errAt # 0 \/ hist[c].raised

\* C20: a manual trigger whose cycle hit an error answers with that error, not
\* with a success outcome
C20_ManualReportsError ==
    \A c \in Cycles :
        (hist[c].thr = "web" /\ hist[c].st = "done" /\ HitError(c))
            => hist[c].reply = "error"

\* C21: the status keeps the last known-good state: last_fetch_time is set only
\* by a cycle whose fetch succeeded and that raised nothing
C21_LastKnownGood ==
    last_fetch_time # 0 =>
        /\ hist[last_fetch_time].src = "ok"
        /\ ~hist[last_fetch_time].raised

\* an object whose symbol or title is empty once trimmed
Blank(item) == item.dict /\ (Strip(item.symbol) = <<>> \/ Strip(item.desc) = <<>>)

\* an item fetch_nse_data makes a record of
Storable(item) == ~Raises(item) /\ Essential(item)

\* C22: an item whose symbol or title is empty or whitespace only gives no row
\* and no alert, and the items after it in the list are still processed: once
\* the list is walked, those that make a record are in the table
C22_BlankSkipped ==
    /\ \A r \in 1..Len(table) : table[r].company # <<>> /\ table[r].title # <<>>
    /\ \A i \in 1..Len(alerts) :
          alerts[i].key.company # <<>> /\ alerts[i].key.title # <<>>
    /\ \A c \in Cycles :
          FullRun(c) =>
              \A q \in 1..Len(feed) : \A p \in 1..Len(feed) :
                  (q < p /\ Blank(feed[q]) /\ Storable(feed[p]))
                      => Exists(KeyOf(feed[p]))

\* a list with a blank item first and an item that makes a record second has
\* been walked, and the second item was committed and alerted
C22_Witness ==
    /\ Len(feed) = 2 /\ Blank(feed[1]) /\ Storable(feed[2])
    /\ \E c \in Cycles : FullRun(c) /\ hist[c].commits = << 2 >> /\ AlertPos(c) = << 2 >>

\* an object with symbol and title whose date no known format parses
Undated(item) == item.dict /\ Essential(item) /\ item.an_dt \notin {"iso", "nse"}

\* no earlier item of the list carries the pair of item p
FirstOfPair(p) == \A q \in 1..(p - 1) : KeyOf(feed[q]) # KeyOf(feed[p])

\* C23: the timestamp fallback never drops a record: an item with symbol and
\* title whose date cannot be parsed, whatever its shape, is inserted with the
\* time of normalisation as its date
C23_TimestampFallback ==
    \A c \in Cycles :
        FullRun(c) =>
            \A p \in 1..Len(feed) :
                (Undated(feed[p]) /\ FirstOfPair(p)) =>
                    \E r \in 1..Len(table) :
                        RowKey(table[r]) = KeyOf(feed[p]) /\ table[r].date = "now"

\* no earlier item of the list makes a record of the pair of item p
NoEarlierRecord(p) ==
    \A q \in 1..(p - 1) : Storable(feed[q]) => KeyOf(feed[q]) # KeyOf(feed[p])

\* C24: item independence: an item that raises while it is normalised (no
\* object, a date strptime cannot take) keeps no later item of the list from
\* being checked against the table and, if new, inserted and alerted
C24_ItemIndependence ==
    \A c \in Cycles :
        FullRun(c) =>
            \A q \in 1..Len(feed) : \A p \in 1..Len(feed) :
                (q < p /\ Raises(feed[q]) /\ Storable(feed[p])) =>
                    /\ Exists(KeyOf(feed[p]))
                    /\ (NoEarlierRecord(p) /\ c = 1) =>
                          /\ \E n \in 1..Len(hist[c].commits) : hist[c].commits[n] = p
                          /\ \E i \in 1..Len(alerts) :
                                alerts[i].cycle = c /\ alerts[i].pos = p

\* a list with a raising item first and an item that makes a record second has
\* been walked
C24_Witness ==
    /\ Len(feed) = 2 /\ Raises(feed[1]) /\ Storable(feed[2])
    /\ \E c \in Cycles : FullRun(c) /\ hist[c].commits = << 2 >>

\* C25: the table is append-only: a step leaves every row where it was and as
\* it was; rows are only added behind them
C25_AppendOnly ==
    [][Len(table') >= Len(table) /\ SubSeq(table', 1, Len(table)) = table]_vars

\* two cycles have each added a row
C25_Witness ==
    /\ Len(table) = 2
    /\ \E c1 \in Cycles : \E c2 \in Cycles :
          c1 < c2 /\ hist[c1].commits # <<>> /\ hist[c2].commits # <<>>

\* the rows the table held at the last restart of the process
RowsAtBoot == boots[Len(boots)].rows

\* every item of the list that makes a record was in the table at the last restart
StoredBeforeBoot ==
    \A p \in 1..Len(feed) :
        Storable(feed[p]) => \E r \in 1..RowsAtBoot : RowKey(table[r]) = KeyOf(feed[p])

\* C26: the duplicate check sees the rows of an earlier run of the process:
\* after a restart, a cycle on a list whose items were all stored before the
\* restart inserts nothing and alerts nothing
C26_DedupSurvivesRestart ==
    boots # <<>> =>
        \A c \in Cycles :
            (c > boots[Len(boots)].cycles /\ StoredBeforeBoot) =>
                /\ hist[c].commits = <<>>
                /\ hist[c].ret = <<>>
                /\ \A i \in 1..Len(alerts) : alerts[i].cycle # c

\* the process was restarted with the item of the list in the table, and a cycle
\* of the new process has walked the list
C26_Witness ==
    /\ boots # <<>> /\ RowsAtBoot > 0 /\ StoredBeforeBoot
    /\ \E c \in Cycles : c > boots[Len(boots)].cycles /\ FullRun(c) /\ hist[c].lastOp > 0

\* C27: a failed alert is never retried: after the alert of a pair has failed,
\* no alert for that pair is sent again, in that cycle or a later one
C27_NoAlertRetry ==
    \A i \in 1..Len(alerts) : \A j \in 1..Len(alerts) :
        (i < j /\ ~alerts[i].ok) => alerts[j].key # alerts[i].key

\* an alert failed, and a later cycle has walked the same list
C27_Witness ==
    \E i \in 1..Len(alerts) :
        /\ ~alerts[i].ok
        /\ \E c \in Cycles : c > alerts[i].cycle /\ FullRun(c) /\ hist[c].lastOp > 0

\* the alerts that reached the messaging endpoint
Delivered == { i \in 1..Len(alerts) : alerts[i].ok }

\* C28: total_alerts_sent counts the alerts delivered: whenever no cycle is in
\* progress it equals the number of per-record alerts that reached the endpoint
C28_CounterCountsDelivered ==
    (\A t \in Threads : cyc[t] = 0) => total_alerts_sent = Cardinality(Delivered)

\* the step of a thread is a commit that failed and was rolled back
InsertFails(t) ==
    /\ pc[t] = "insert"
    /\ cyc'[t] = cyc[t]
    /\ Len(hist'[cyc[t]].rolled) > Len(hist[cyc[t]].rolled)

\* positions of a sequence of positions
Range(s) == { s[i] : i \in 1..Len(s) }

\* C29: an insert whose commit fails is skipped silently: the step leaves the
\* table, the list of new records and the alerts as they were, fetch_nse_data
\* goes on with the next item or returns its list, and the position is never
\* among the commits, the alerts or the returned records of the cycle
C29_FailedInsertSkipped ==
    [][ /\ \A t \in Threads :
             InsertFails(t) =>
                 /\ table' = table
                 /\ new_announcements'[t] = new_announcements[t]
                 /\ alerts' = alerts
                 /\ pc'[t] \in {"item", "ret"}
                 /\ pc'[t] = "ret" => hist'[cyc[t]].ret = new_announcements[t]
                 /\ ~hist'[cyc[t]].raised
        /\ \A c \in 1..Len(hist') : \A p \in Range(hist'[c].rolled) :
             /\ p \notin Range(hist'[c].commits)
             /\ p \notin Range(hist'[c].ret)
             /\ \A i \in 1..Len(alerts') :
                  ~(alerts'[i].cycle = c /\ alerts'[i].pos = p) ]_vars

\* a commit failed, fetch_nse_data went on to a later item and the cycle ended
\* without raising
C29_Witness ==
    \E c \in Cycles :
        /\ hist[c].rolled # <<>>
        /\ hist[c].st = "done" /\ ~hist[c].raised
        /\ hist[c].lastOp > hist[c].rolled[1]

\* the rows the cycles up to cycle c committed, cycle after cycle, each cycle's
\* in the order of its commits
RECURSIVE CommittedRows(_)
CommittedRows(c) ==
    IF c = 0 THEN <<>>
    ELSE CommittedRows(c - 1) \o
         [i \in 1..Len(hist[c].commits) |-> RowOf(feed[hist[c].commits[i]])]

\* a sequence of positions in source order
Ascending(s) == \A i \in 1..Len(s) : \A j \in 1..Len(s) : i < j => s[i] < s[j]

\* C30: the list fetch_nse_data returns holds exactly the records the cycle
\* committed, in source order; they are the rows the cycle added to the table
\* and the records it called send_telegram_alert for, once each
C30_CycleResult ==
    /\ \A c \in Cycles :
         Returned(c) =>
             /\ hist[c].ret = hist[c].commits
             /\ Ascending(hist[c].ret)
             /\ AlertPos(c) = hist[c].ret
    /\ table = CommittedRows(Len(hist))

\* a cycle committed, alerted and returned the two records of its list
C30_Witness ==
    \E c \in Cycles :
        /\ hist[c].st = "done"
        /\ Len(hist[c].ret) = 2
        /\ Len(AlertPos(c)) = 2
        /\ Len(table) = 2

\* two items with the same symbol and the same title, both trimmed, compared
\* character by character
SamePair(i, j) ==
    /\ Strip(i.symbol) = Strip(j.symbol)
    /\ Strip(i.desc) = Strip(j.desc)

\* C31: the deduplication key is the trimmed symbol with the trimmed title,
\* case-sensitive: walking a list on an empty table, an item is committed
\* exactly when no earlier item of the list has the same trimmed symbol and
\* title; a different date, link, display name or description does not make it
\* new, a different letter case does
C31_DedupKey ==
    \A c \in Cycles :
        (c = 1 /\ FullRun(c)) =>
            \A p \in 1..Len(feed) :
                p \in Range(hist[c].commits) <=>
                    ~\E q \in 1..(p - 1) : SamePair(feed[q], feed[p])

\* the list held an item, the same pair with another date and a blank-padded
\* symbol, and the pair in another letter case: the first and the third were
\* committed
C31_Witness ==
    /\ Len(feed) = 3
    /\ feed[1] = Plain
    /\ SamePair(feed[1], feed[2]) /\ feed[2] # feed[1]
    /\ Fold(Strip(feed[3].symbol)) = Fold(Strip(feed[1].symbol))
    /\ ~SamePair(feed[1], feed[3])
    /\ hist # <<>> /\ hist[1].st = "done" /\ hist[1].commits = << 1, 3 >>

\* C32: a cycle of fetch_and_alert calls send_bulk_alert_summary once when
\* fetch_nse_data returned more than five new records and not at all otherwise,
\* and the call comes after every call of send_telegram_alert of the cycle
C32_BulkSummary ==
    \A c \in Cycles :
        (hist[c].st = "done" /\ hist[c].gets > 0) =>
            /\ Len(hist[c].bulk) = IF Len(hist[c].ret) > BulkThreshold THEN 1 ELSE 0
            /\ \A k \in 1..Len(hist[c].bulk) : \A i \in 1..Len(alerts) :
                 alerts[i].cycle = c => i <= hist[c].bulk[k]

\* C33: a status query does not wait for a cycle: while any thread is inside
\* fetch_and_alert, in the initial cycle, a loop cycle or a manual cycle, a
\* GET / can be answered
C33_StatusDuringCycle == \A t \in Threads : InCycle(t) => ENABLED Status

\* the thread of cycle c is past the GET of fetch_nse_data
PastFetch(c) ==
    \E t \in Threads : cyc[t] = c /\ pc[t] \in {"item", "insert", "notify", "ret"}

\* C34: fetch_nse_data does not retry: a cycle never issues a second GET, and a
\* cycle that is past its request, answered or failed, has issued exactly one
C34_OneGetPerCycle ==
    \A c \in Cycles :
        /\ hist[c].gets <= 1
        /\ PastFetch(c) => hist[c].gets = 1
        /\ (hist[c].st = "done" /\ ~hist[c].raised) => hist[c].gets = 1

\* a cycle whose GET failed has ended with one GET issued, and so has the next
\* cycle, whose GET was answered
C34_Witness ==
    /\ Len(hist) = 2
    /\ hist[1].st = "done" /\ hist[1].src = "failed" /\ hist[1].gets = 1
    /\ hist[2].st = "done" /\ hist[2].src = "ok" /\ hist[2].gets = 1

\* the date of the record when each of an_dt, dt, sort_date is tried in turn
\* until one yields a timestamp
FirstParsed(item) ==
    IF \/ ParseDate(item.an_dt) = "parsed"
       \/ ParseDate(item.dt) = "parsed"
       \/ ParseDate(item.sort_date) = "parsed"
    THEN "parsed" ELSE "now"

\* C35: the date of a record comes from an_dt, dt, sort_date tried in this
\* order: a later field is used when the earlier ones are missing, empty or not
\* parseable, and the date is the current time only when none of the three
\* yields a timestamp
C35_DateFieldOrder ==
    \A c \in Cycles :
        (c = 1 /\ FullRun(c)) =>
            \A p \in 1..Len(feed) :
                FirstOfPair(p) =>
                    \E r \in 1..Len(table) :
                        /\ RowKey(table[r]) = KeyOf(feed[p])
                        /\ table[r].date = FirstParsed(feed[p])

\* minutes since midnight
MinuteOfDay == scheduler.hr * 60 + scheduler.mn

\* Monday to Friday, 9:15 AM to 3:30 PM
MarketWindow ==
    /\ scheduler.wd <= 4
    /\ 9 * 60 + 15 <= MinuteOfDay
    /\ MinuteOfDay <= 15 * 60 + 30

\* C36: the market-hours job of start_scheduler fires only from Monday to
\* Friday between 9:15 AM and 3:30 PM, at every fifth minute; outside that
\* window nothing fires but the fetch of 4:00 PM on those days and the one
\* initial fetch
C36_MarketHoursJob ==
    /\ "nse_market_hours_fetch" \in scheduler.fired =>
           MarketWindow /\ scheduler.mn % 5 = 0
    /\ ~MarketWindow =>
           \/ scheduler.fired = {}
           \/ scheduler.fired = {"initial_test_fetch"}
           \/ /\ scheduler.fired = {"nse_post_market_fetch"}
              /\ scheduler.wd <= 4 /\ scheduler.hr = 16 /\ scheduler.mn = 0

\* position p is the first of the list with its pair
FirstOccurrence(p) == \A q \in 1..(p - 1) : ~SamePair(feed[q], feed[p])

\* C37: when a pair occurs more than once in the list of one cycle and is not
\* stored yet, its first occurrence is inserted and alerted and every later
\* one is found existing: the cycle stores the pair once and alerts it once
C37_DuplicateInBatch ==
    \A c \in Cycles :
        (c = 1 /\ FullRun(c)) =>
            \A p \in 1..Len(feed) :
                /\ FirstOccurrence(p) =>
                       /\ p \in Range(hist[c].commits)
                       /\ p \in Range(AlertPos(c))
                /\ ~FirstOccurrence(p) =>
                       /\ p \notin Range(hist[c].commits)
                       /\ p \notin Range(AlertPos(c))
                /\ Cardinality(Rows(KeyOf(feed[p]))) = 1
                /\ Cardinality(AlertsFor(KeyOf(feed[p]))) = 1

\* a list held the same pair three times, in two different items; the cycle
\* committed and alerted the first only
C37_Witness ==
    /\ Len(feed) = 3
    /\ SamePair(feed[1], feed[2]) /\ feed[2] # feed[1] /\ feed[3] = feed[1]
    /\ hist # <<>> /\ hist[1].st = "done"
    /\ hist[1].commits = << 1 >> /\ AlertPos(1) = << 1 >>
    /\ Len(table) = 1

\* the alert a step sends
Sent == alerts'[Len(alerts')]

\* C38: persist before notify: a step that calls send_telegram_alert does so
\* for a record whose row is in the table, committed by the same cycle, and
\* before any store operation for a later item of the list
C38_PersistBeforeNotify ==
    [][ Len(alerts') > Len(alerts) =>
          /\ Len(alerts') = Len(alerts) + 1
          /\ Exists(Sent.key)
          /\ Sent.pos \in Range(hist[Sent.cycle].commits)
          /\ hist[Sent.cycle].lastOp = Sent.pos
          /\ table' = table ]_vars

\* the first record of a list of two was committed and alerted; the duplicate
\* check of the second has not been made yet
C38_Witness ==
    \E t \in Threads :
        /\ pc[t] = "item" /\ idx[t] = 2
        /\ hist[cyc[t]].commits = << 1 >>
        /\ hist[cyc[t]].lastOp = 1
        /\ AlertPos(cyc[t]) = << 1 >>

\* the new records the finished cycles up to cycle c have returned
RECURSIVE ReturnedUpTo(_)
ReturnedUpTo(c) ==
    IF c = 0 THEN 0
    ELSE ReturnedUpTo(c - 1) + (IF hist[c].st = "done" THEN Len(hist[c].ret) ELSE 0)

\* no thread is inside fetch_and_alert
NoCycleRunning == \A t \in Threads : ~InCycle(t)

\* C39: total_alerts_sent never decreases and, whenever no cycle is in
\* progress, is the sum of the new-record counts the cycles have returned, also
\* when the cycle of a /force-fetch request and a cycle of the loop overlap
C39_CounterConsistent ==
    [][ /\ total_alerts_sent' >= total_alerts_sent
        /\ NoCycleRunning' => total_alerts_sent' = ReturnedUpTo(Len(hist))' ]_vars

\* the monitoring loop enters fetch_and_alert
LoopCycleStarts == CycleStarts /\ pc["loop"] = "call" /\ pc'["loop"] # "call"

\* C40: the flag is set only by start() and cleared only by stop(); once
\* stop() has cleared it the loop thread leaves its while loop in the end, and
\* it starts no cycle after the flag was cleared (a cycle in progress ends)
C40_LoopEndsAfterStop ==
    /\ [][ /\ (~running /\ running') => (pc["main"] = "init" /\ pc'["main"] = "call")
           /\ (running /\ ~running') => shutdown_sent' = shutdown_sent + 1 ]_vars
    /\ (shutdown_sent > 0) ~> (pc["loop"] = "exit")
    /\ [][ LoopCycleStarts => running ]_vars
====
